---- MODULE Spec2Model ----
(***************************************************************************)
(* Model of libs/langchain-community/src/document_loaders/web/oracleai.ts: *)
(* the HTML metadata parser (ParseOracleDocMetadata), the table path of   *)
(* OracleDocLoader.load() and OracleDocReader.generateObjectId.            *)
(*                                                                         *)
(* JavaScript strings are sequences of one-character strings, so that the  *)
(* identifier regular expression and startsWith are computed on the        *)
(* characters.  A JavaScript value is a record: Undefined, Null, Str(cs),  *)
(* Arr(items), Html(tokens) or an object id; metadata maps and rows are    *)
(* functions from keys (character sequences) to values.                    *)
(***************************************************************************)
EXTENDS Integers, Sequences, FiniteSets, TLC

VARIABLES
    \* ---- ParseOracleDocMetadata (one parser instance) ----
    metadata,     \* this.metadata
    match,        \* this.match
    lastEvent,    \* history: the event the last handler call received
    nEvents,      \* history: number of events handled so far
    titleText,    \* history: text captured by the latest armed text event
    titleByMeta,  \* history: a meta tag named "title" came after that capture
    \* ---- OracleDocLoader (one load() call) ----
    loadFromType, \* this.loadFromType
    owner,        \* this.owner
    loadFrom,     \* this.loadFrom
    colname,      \* this.colname
    mdata_cols,   \* this.mdata_cols
    pc,           \* position of load(): the await it is suspended at
    executed,     \* history: statements passed to conn.execute, in order
    colRows,      \* colResult.rows of the catalog lookup (block-scoped: kept
                  \* until the main query settles)
    rows,         \* result.rows of the main query
    results,      \* the accumulator `results` / the resolved value
    error,        \* the error load() rejected with
    oids,         \* history: the id generateObjectId returned for each row
    failed,       \* history: the error conn.execute rejected with, if one did
    \* ---- OracleDocReader.generateObjectId (one call at a time) ----
    idCall,       \* the argument and the environment's answers of the last call
    idResult      \* what that call returned or threw

parserVars == <<metadata, match, lastEvent, nEvents, titleText, titleByMeta>>
loaderVars == <<loadFromType, owner, loadFrom, colname, mdata_cols, pc, executed, colRows,
                rows, results, error, oids, failed>>
genVars == <<idCall, idResult>>
vars == <<metadata, match, lastEvent, nEvents, titleText, titleByMeta,
          loadFromType, owner, loadFrom, colname, mdata_cols, pc, executed,
          colRows, rows, results, error, oids, failed, idCall, idResult>>

\* ------------------------------------------------------------------ bounds
MaxEvents == 4      \* events fed to one parser
MaxRows == 2        \* rows the main query returns

\* ------------------------------------------------------- JavaScript values
Undefined == [undef |-> TRUE]
Null == [null |-> TRUE]
Str(cs) == [chars |-> cs]
Arr(items) == [items |-> items]

\* An HTML string, kept as the tokens htmlparser2 splits it into: each token is
\* [src |-> its characters, ev |-> the event the tokenizer raises for it].
Html(tokens) == [tokens |-> tokens]

RECURSIVE Raw(_)
Raw(tokens) == IF tokens = <<>> THEN <<>> ELSE Head(tokens).src \o Raw(Tail(tokens))

IsStr(v) == "chars" \in DOMAIN v \/ "tokens" \in DOMAIN v
\* The characters of a string value
Chars(v) == IF "tokens" \in DOMAIN v THEN Raw(v.tokens) ELSE v.chars

\* JavaScript truthiness of undefined, null and strings
Truthy(v) == /\ v # Undefined
             /\ v # Null
             /\ (IsStr(v) => Chars(v) # <<>>)

\* v ?? d
Coalesce(v, d) == IF v = Null \/ v = Undefined THEN d ELSE v

\* s.startsWith(prefix) on character sequences
StartsWith(s, prefix) ==
    /\ Len(s) >= Len(prefix)
    /\ SubSeq(s, 1, Len(prefix)) = prefix

\* obj[key] = value on a map (last write wins)
Put(m, k, v) == [x \in (DOMAIN m) \cup {k} |-> IF x = k THEN v ELSE m[x]]

\* obj[key] read: undefined when the key is absent
Get(m, k) == IF k \in DOMAIN m THEN m[k] ELSE Undefined

EmptyMap == [x \in {} |-> Undefined]

\* ------------------------------------------------------------- characters
Alpha == {"a","b","c","d","e","f","g","h","i","j","k","l","m",
          "n","o","p","q","r","s","t","u","v","w","x","y","z",
          "A","B","C","D","E","F","G","H","I","J","K","L","M",
          "N","O","P","Q","R","S","T","U","V","W","X","Y","Z"}
Digit == {"0","1","2","3","4","5","6","7","8","9"}

K_title == <<"t","i","t","l","e">>
K_oid == <<"_","o","i","d">>
K_rowid == <<"_","r","o","w","i","d">>
K_author == <<"a","u","t","h","o","r">>
NA == Str(<<"N","/","A">>)

\* ------------------------------------------------- ParseOracleDocMetadata
\* The attrs.forEach loop of handleStartTag: acc is <<entry, content>>.
RECURSIVE ScanAttrs(_, _, _)
ScanAttrs(attrs, i, acc) ==
    IF i > Len(attrs) THEN acc
    ELSE LET a == attrs[i]
             e == IF a.name = "name" THEN Coalesce(a.value, Str(<<>>)) ELSE acc[1]
             c == IF a.name = "content" THEN a.value ELSE acc[2]
         IN ScanAttrs(attrs, i + 1, <<e, c>>)

\* handleStartTag with the "N/A" default dropped: a meta tag without a content
\* attribute records nothing.
HandleStartTag_NoDefault(p, tag, attrs) ==
    IF tag = "meta"
    THEN LET acc == ScanAttrs(attrs, 1, <<Undefined, Null>>)
         IN IF Truthy(acc[1]) /\ acc[2] # Null
            THEN [p EXCEPT !.metadata = Put(p.metadata, acc[1].chars, acc[2])]
            ELSE p
    ELSE IF tag = "title"
    THEN [p EXCEPT !.match = TRUE]
    ELSE p

\* handleStartTag(tag, attrs) on the parser state p = [metadata, match]
HandleStartTag(p, tag, attrs) ==
    IF tag = "meta"
    THEN LET acc == ScanAttrs(attrs, 1, <<Undefined, Null>>)
             entry == acc[1]
             content == acc[2]
         IN IF Truthy(entry)
            THEN [p EXCEPT !.metadata = Put(p.metadata, entry.chars, Coalesce(content, NA))]
            ELSE p
    ELSE IF tag = "title"
    THEN [p EXCEPT !.match = TRUE]
    ELSE p

\* handleData that forgets to disarm the capture flag.
HandleData_KeepArmed(p, data) ==
    IF p.match
    THEN [metadata |-> Put(p.metadata, K_title, Str(data)), match |-> TRUE]
    ELSE p

\* handleData(data)
HandleData(p, data) ==
    IF p.match
    THEN [metadata |-> Put(p.metadata, K_title, Str(data)), match |-> FALSE]
    ELSE p

\* new ParseOracleDocMetadata()
NewParser == [metadata |-> EmptyMap, match |-> FALSE]

\* --------------------------------------------- events fed to one parser
\* Tag names as htmlparser2 reports them (lower-cased).
Tags == {"meta", "title", "html"}
\* Attribute values: htmlparser2 hands attributes over as Record<string,string>,
\* so a value is always a string (possibly empty).
AttrValues == {<<>>, K_title, K_author}
\* Object.entries(attrs): attribute names are unique, in document order.
AttrLists ==
    {<<>>}
    \cup {<<[name |-> n, value |-> Str(v)]>> : n \in {"name", "content"}, v \in AttrValues}
    \cup {<<[name |-> "name", value |-> Str(v)], [name |-> "content", value |-> Str(w)]>> :
            v \in AttrValues, w \in AttrValues}
    \cup {<<[name |-> "content", value |-> Str(w)], [name |-> "name", value |-> Str(v)]>> :
            v \in AttrValues, w \in AttrValues}
Texts == {<<"D","1">>, <<"D","2">>}

ParserState == [metadata |-> metadata, match |-> match]

\* Attributes of an event, read independently of the handler's loop.
HasAttr(attrs, n) == \E i \in 1..Len(attrs) : attrs[i].name = n
AttrVal(attrs, n) == attrs[CHOOSE i \in 1..Len(attrs) : attrs[i].name = n].value

\* generateObjectId has not been called
NoIdCall == idCall = Undefined /\ idResult = Undefined

LoaderIdle ==
    /\ loadFromType = "TABLE"
    /\ owner = Undefined /\ loadFrom = Str(<<>>) /\ colname = Undefined
    /\ mdata_cols = Undefined
    /\ pc = "idle" /\ executed = <<>> /\ colRows = Undefined /\ rows = Undefined
    /\ results = <<>> /\ error = Undefined /\ oids = <<>> /\ failed = Undefined

ParserInit ==
    /\ metadata = NewParser.metadata
    /\ match = NewParser.match
    /\ lastEvent = [kind |-> "none"]
    /\ nEvents = 0
    /\ titleText = Undefined
    /\ titleByMeta = FALSE
    /\ LoaderIdle
    /\ NoIdCall

\* onopentag: (name, attrs) => this.handleStartTag(name, Object.entries(attrs)...)
OpenTag(tag, attrs) ==
    /\ pc = "idle"
    /\ nEvents < MaxEvents
    /\ LET p == HandleStartTag(ParserState, tag, attrs)
       IN /\ metadata' = p.metadata
          /\ match' = p.match
    /\ lastEvent' = [kind |-> "open", tag |-> tag, attrs |-> attrs]
    /\ nEvents' = nEvents + 1
    /\ titleText' = titleText
    /\ titleByMeta' = (titleByMeta \/ (/\ tag = "meta"
                                       /\ HasAttr(attrs, "name")
                                       /\ AttrVal(attrs, "name") = Str(K_title)))
    /\ UNCHANGED loaderVars
    /\ UNCHANGED genVars

\* ontext: (text) => this.handleData(text)
Text(data) ==
    /\ pc = "idle"
    /\ nEvents < MaxEvents
    /\ LET p == HandleData(ParserState, data)
       IN /\ metadata' = p.metadata
          /\ match' = p.match
    /\ lastEvent' = [kind |-> "text", data |-> data]
    /\ nEvents' = nEvents + 1
    /\ titleText' = IF match THEN Str(data) ELSE titleText
    /\ titleByMeta' = IF match THEN FALSE ELSE titleByMeta
    /\ UNCHANGED loaderVars
    /\ UNCHANGED genVars

ParserNext ==
    \/ \E tag \in Tags, attrs \in AttrLists : OpenTag(tag, attrs)
    \/ \E data \in Texts : Text(data)

ParserSpec == ParserInit /\ [][ParserNext]_vars

\* ------------------------------------------------------------ C9, C10
IsMetaOpen(ev) == ev.kind = "open" /\ ev.tag = "meta"

\* What the claim expects a meta tag with a name attribute to record.
MetaExpected(attrs) ==
    IF HasAttr(attrs, "content") THEN AttrVal(attrs, "content") ELSE NA

\* C9 as stated: every meta open-tag event with a name attribute X, whatever
\* string X is, sets metadata[X] to the content attribute's value, or to "N/A"
\* when there is no content attribute; a meta tag without a name attribute
\* leaves the map unchanged.
C9_AnyNameRecorded ==
    [][IsMetaOpen(lastEvent') =>
         IF HasAttr(lastEvent'.attrs, "name")
         THEN metadata' = Put(metadata, AttrVal(lastEvent'.attrs, "name").chars,
                              MetaExpected(lastEvent'.attrs))
         ELSE metadata' = metadata]_vars

\* C9 (amended): the same for every NON-EMPTY name X; a meta tag whose name
\* attribute is the empty string, like one without a name attribute, leaves the
\* metadata map unchanged.
C9_NonEmptyNameRecorded ==
    [][IsMetaOpen(lastEvent') =>
         IF /\ HasAttr(lastEvent'.attrs, "name")
            /\ AttrVal(lastEvent'.attrs, "name").chars # <<>>
         THEN metadata' = Put(metadata, AttrVal(lastEvent'.attrs, "name").chars,
                              MetaExpected(lastEvent'.attrs))
         ELSE metadata' = metadata]_vars

\* A meta tag with a non-empty name and no content attribute was handled and the
\* map holds "N/A" under that name.
C9_Witness ==
    /\ IsMetaOpen(lastEvent)
    /\ HasAttr(lastEvent.attrs, "name")
    /\ ~HasAttr(lastEvent.attrs, "content")
    /\ AttrVal(lastEvent.attrs, "name").chars # <<>>
    /\ Get(metadata, AttrVal(lastEvent.attrs, "name").chars) = NA

\* The four step rules of C10, on the step that handles event lastEvent'.
TitleStepRules ==
    /\ (lastEvent'.kind = "open" /\ lastEvent'.tag = "title") => match'
    /\ (lastEvent'.kind = "text" /\ match) =>
          /\ metadata' = Put(metadata, K_title, Str(lastEvent'.data))
          /\ ~match'
    /\ (lastEvent'.kind = "open" /\ match) => match'
    /\ (lastEvent'.kind = "text" /\ ~match) => metadata' = metadata

\* C10 as stated: the step rules hold and hence, once a title text has been
\* captured, metadata["title"] is the text that first followed the latest
\* captured title tag.
C10_TitleIsCapturedText ==
    /\ [][TitleStepRules]_vars
    /\ [](titleText # Undefined => Get(metadata, K_title) = titleText)

\* C10 (amended): the step rules hold, and metadata["title"] is the text that
\* first followed the latest captured title tag unless a meta tag whose name
\* attribute is "title" was handled after that capture.
C10_TitleIsCapturedTextUnlessMeta ==
    /\ [][TitleStepRules]_vars
    /\ []((titleText # Undefined /\ ~titleByMeta) => Get(metadata, K_title) = titleText)

\* A title was captured, a later text event arrived while the flag was not
\* armed, and the captured title is still in the map.
C10_Witness ==
    /\ lastEvent.kind = "text"
    /\ titleText # Undefined
    /\ titleText # Str(lastEvent.data)
    /\ ~titleByMeta
    /\ ~match
    /\ Get(metadata, K_title) = titleText

\* ----------------------------------------------------- OracleDocLoader
MaxMdataCols == 3

\* isValidIdentifier accepting any tail after a valid first character.
IsValidIdentifier_FirstCharOnly(identifier) ==
    /\ Len(identifier) >= 1
    /\ identifier[1] \in Alpha \cup {"_"}

\* isValidIdentifier: /^[A-Za-z_][A-Za-z0-9_]*$/.test(identifier)
IsValidIdentifier(identifier) ==
    /\ Len(identifier) >= 1
    /\ identifier[1] \in Alpha \cup {"_"}
    /\ \A i \in 2..Len(identifier) : identifier[i] \in Alpha \cup Digit \cup {"_"}

Err(msg) == [message |-> msg]

\* The identifier checks with the table-name check after the column-name check.
ValidateConfig_ColumnFirst(o, t, c) ==
    IF ~Truthy(o) \/ ~Truthy(c)
    THEN Err("Owner and column name must be specified for loading from a table")
    ELSE IF ~IsValidIdentifier(Chars(o)) THEN Err("Invalid owner name")
    ELSE IF ~IsValidIdentifier(Chars(c)) THEN Err("Invalid column name")
    ELSE IF ~IsValidIdentifier(Chars(t)) THEN Err("Invalid table name")
    ELSE Undefined

\* loadFromTable, the checks on owner, table and content column: the error
\* thrown, or Undefined when all pass.
ValidateConfig(o, t, c) ==
    IF ~Truthy(o) \/ ~Truthy(c)
    THEN Err("Owner and column name must be specified for loading from a table")
    ELSE IF ~IsValidIdentifier(Chars(o)) THEN Err("Invalid owner name")
    ELSE IF ~IsValidIdentifier(Chars(t)) THEN Err("Invalid table name")
    ELSE IF ~IsValidIdentifier(Chars(c)) THEN Err("Invalid column name")
    ELSE Undefined

\* The column-count check off by one.
TooManyCols_OffByOne(cols) == Len(cols.items) >= MaxMdataCols

\* this.mdata_cols.length > 3
TooManyCols(cols) == Len(cols.items) > MaxMdataCols

SupportedTypes == {"NUMBER", "BINARY_DOUBLE", "BINARY_FLOAT", "LONG", "DATE",
                   "TIMESTAMP", "VARCHAR2"}

\* The loop filling colTypes from the catalog rows (last row of a name wins).
RECURSIVE BuildColTypes(_, _, _)
BuildColTypes(crows, i, acc) ==
    IF i > Len(crows) THEN acc
    ELSE BuildColTypes(crows, i + 1, Put(acc, crows[i].COLUMN_NAME, crows[i].DATA_TYPE))

\* The validation loop without its data-type check
RECURSIVE CheckMdataCols_AnyType(_, _, _)
CheckMdataCols_AnyType(cols, colTypes, i) ==
    IF i > Len(cols) THEN Undefined
    ELSE IF ~IsValidIdentifier(cols[i])
    THEN [message |-> "Invalid column name in mdata_cols", col |-> cols[i]]
    ELSE IF cols[i] \notin DOMAIN colTypes \/ colTypes[cols[i]] = ""
    THEN [message |-> "Column not found in table", col |-> cols[i]]
    ELSE CheckMdataCols_AnyType(cols, colTypes, i + 1)

\* The loop over this.mdata_cols that validates each column: the first error
\* thrown, or Undefined when every column passes.
RECURSIVE CheckMdataCols(_, _, _)
CheckMdataCols(cols, colTypes, i) ==
    IF i > Len(cols) THEN Undefined
    ELSE IF ~IsValidIdentifier(cols[i])
    THEN [message |-> "Invalid column name in mdata_cols", col |-> cols[i]]
    ELSE IF cols[i] \notin DOMAIN colTypes \/ colTypes[cols[i]] = ""
    THEN [message |-> "Column not found in table", col |-> cols[i]]
    ELSE IF colTypes[cols[i]] \notin SupportedTypes
    THEN [message |-> "The datatype for the column is not supported", col |-> cols[i]]
    ELSE CheckMdataCols(cols, colTypes, i + 1)

\* The statements passed to conn.execute.  The main query is recorded with the
\* names spliced into its text.
CatalogQuery == [kind |-> "catalog"]
MainQuery(cols) ==
    [kind |-> "main", owner |-> Chars(owner), table |-> Chars(loadFrom),
     colname |-> Chars(colname), mdataCols |-> cols]
UserQuery == [kind |-> "user"]

\* getUsername: result.rows?.[0]?.[0] || "unknown_user"
GetUsername(first) ==
    IF Truthy(first) THEN Chars(first)
    ELSE <<"u","n","k","n","o","w","n","_","u","s","e","r">>

\* ------------------------------------- OracleDocReader.generateObjectId
\* A number that may need more than 31 bits is kept as two halves: it is
\* hi * 2^16 + lo with 0 <= lo < 2^16.
Wide(hi, lo) == [hi |-> hi, lo |-> lo]

OutLength == 32     \* const outLength = 32
HashLen == 8        \* const hashLen = 8
SeedLen == 16       \* Array.from({ length: 16 }, ...)

\* The 62 characters the random seed is drawn from
SeedAlphabet == <<
    "a", "b", "c", "d", "e", "f", "g", "h", "i", "j", "k", "l", "m", "n", "o", "p",
    "q", "r", "s", "t", "u", "v", "w", "x", "y", "z", "A", "B", "C", "D", "E", "F",
    "G", "H", "I", "J", "K", "L", "M", "N", "O", "P", "Q", "R", "S", "T", "U", "V",
    "W", "X", "Y", "Z", "0", "1", "2", "3", "4", "5", "6", "7", "8", "9">>

\* The seed synthesized when none is given: picks[i] is
\* Math.floor(Math.random() * 62) of the i-th character.
RandomSeed(picks) == [i \in 1..SeedLen |-> SeedAlphabet[picks[i] + 1]]

\* Date.now() is [sec, ms]: sec whole seconds (a Wide number) and ms further
\* milliseconds; Math.floor(Date.now() / 1000) is its whole seconds.
Clock(sec, ms) == [sec |-> sec, ms |-> ms]
FloorSeconds(now) == now.sec

\* Math.random() is [num |-> n], standing for n / 2^32 with n a Wide number
\* below 2^32; Math.floor(Math.random() * Math.pow(2, 32)) is n.
Draw(n) == [num |-> n]
ScaleRandom(draw) == draw.num

RangeError ==
    [name |-> "RangeError", code |-> "ERR_OUT_OF_RANGE",
     message |-> "The value of \"value\" is out of range."]
Thrown(e) == [thrown |-> e]
IsThrown(r) == "thrown" \in DOMAIN r

\* buf.writeUInt32BE(value) on a 4-byte buffer: the four bytes, most
\* significant first, or a RangeError when value is not in 0 .. 2^32 - 1.
WriteUInt32BE(value) ==
    IF value.hi < 0 \/ value.hi > 65535 THEN Thrown(RangeError)
    ELSE [bytes |-> <<value.hi \div 256, value.hi % 256,
                      value.lo \div 256, value.lo % 256>>]

\* Character codes of ASCII: codes 32 .. 95, then the letters 97 .. 122; other
\* characters are not used by the inputs.
AsciiFrom32 == <<
    " ", "!", "\"", "#", "$", "%", "&", "'", "(", ")", "*", "+", ",", "-", ".", "/",
    "0", "1", "2", "3", "4", "5", "6", "7", "8", "9", ":", ";", "<", "=", ">", "?",
    "@", "A", "B", "C", "D", "E", "F", "G", "H", "I", "J", "K", "L", "M", "N", "O",
    "P", "Q", "R", "S", "T", "U", "V", "W", "X", "Y", "Z", "[", "\\", "]", "^", "_">>
AsciiFrom97 == <<
    "a", "b", "c", "d", "e", "f", "g", "h", "i", "j", "k", "l", "m", "n", "o", "p",
    "q", "r", "s", "t", "u", "v", "w", "x", "y", "z">>
CharCode ==
    [c \in {AsciiFrom32[i] : i \in DOMAIN AsciiFrom32}
            \cup {AsciiFrom97[i] : i \in DOMAIN AsciiFrom97} |->
        IF \E i \in DOMAIN AsciiFrom97 : AsciiFrom97[i] = c
        THEN 96 + (CHOOSE i \in DOMAIN AsciiFrom97 : AsciiFrom97[i] = c)
        ELSE 31 + (CHOOSE i \in DOMAIN AsciiFrom32 : AsciiFrom32[i] = c)]
\* update(inputString): the UTF-8 bytes of an ASCII string
Utf8(cs) == [j \in DOMAIN cs |-> CharCode[cs[j]]]

\* crypto.createHash("sha256")...digest(): 32 bytes that are a function of the
\* input bytes.  The digest itself is not computed; this function (of the
\* length, the first and the last byte) stands in for it with the same shape.
Sha256(bytes) ==
    LET n == Len(bytes)
        first == IF n = 0 THEN 0 ELSE bytes[1]
        last == IF n = 0 THEN 0 ELSE bytes[n]
    IN [i \in 1..32 |-> (i * n + 7 * first + 13 * last + i) % 256]

\* buffer.toString("hex"): two lower-case digits per byte
HexDigits == <<"0","1","2","3","4","5","6","7","8","9","a","b","c","d","e","f">>
RECURSIVE ToHex(_)
ToHex(bytes) ==
    IF bytes = <<>> THEN <<>>
    ELSE <<HexDigits[(Head(bytes) \div 16) + 1], HexDigits[(Head(bytes) % 16) + 1]>>
            \o ToHex(Tail(bytes))

\* s.padStart(n, c) and s.slice(0, n)
RECURSIVE PadStart(_, _, _)
PadStart(cs, n, c) == IF Len(cs) >= n THEN cs ELSE PadStart(<<c>> \o cs, n, c)
Slice0(cs, n) == SubSeq(cs, 1, IF Len(cs) < n THEN Len(cs) ELSE n)

\* generateObjectId(inputString), given what the environment answers during
\* the call: picks (the random seed characters), now (Date.now()) and draw
\* (the Math.random() of the counter).  The result is the id, or Thrown(e).
GenerateObjectId(inputString, picks, now, draw) ==
    LET seed == IF ~Truthy(inputString) THEN RandomSeed(picks) ELSE Chars(inputString)
        timestampBin == WriteUInt32BE(FloorSeconds(now))
        truncatedHashVal == SubSeq(Sha256(Utf8(seed)), 1, HashLen)
        counterBin == WriteUInt32BE(ScaleRandom(draw))
    IN IF IsThrown(timestampBin) THEN timestampBin
       ELSE IF IsThrown(counterBin) THEN counterBin
       ELSE LET objectId == timestampBin.bytes \o truncatedHashVal \o counterBin.bytes
                objectIdHex == PadStart(ToHex(objectId), OutLength, "0")
            IN Str(Slice0(objectIdHex, OutLength))

K_MDATA == <<"M","D","A","T","A">>
K_TEXT == <<"T","E","X","T">>
K_ROWID == <<"R","O","W","I","D">>
S_DOCTYPE == <<"<","!","D","O","C","T","Y","P","E"," ","h","t","m","l">>
S_HTML == <<"<","H","T","M","L",">">>

\* parse(htmlString): the tokenizer's events, in document order, through the
\* two handlers.
RECURSIVE ParseTokens(_, _, _)
ParseTokens(p, tokens, i) ==
    IF i > Len(tokens) THEN p
    ELSE LET ev == tokens[i].ev
         IN ParseTokens(IF ev.kind = "open" THEN HandleStartTag(p, ev.tag, ev.attrs)
                        ELSE IF ev.kind = "text" THEN HandleData(p, ev.data)
                        ELSE p,
                        tokens, i + 1)

\* new ParseOracleDocMetadata(); parser.parse(data); parser.getMetadata()
ParsedMetadata(data) == ParseTokens(NewParser, data.tokens, 1).metadata

\* The metadata object declared outside the row loop, so that a row starts with
\* what the previous row left.
RowStartMetadata_Hoisted(carried) == carried

\* let metadata = {} at the top of each iteration
RowStartMetadata(carried) == EmptyMap

\* data.startsWith("<!DOCTYPE html") || data.startsWith("<HTML>")
LooksLikeHtml(data) ==
    \/ StartsWith(Chars(data), S_DOCTYPE)
    \/ StartsWith(Chars(data), S_HTML)

\* The loop copying each requested column of the row into the metadata.
RECURSIVE CopyCols(_, _, _, _)
CopyCols(m, row, cols, i) ==
    IF i > Len(cols) THEN m
    ELSE CopyCols(Put(m, cols[i], Get(row, cols[i])), row, cols, i + 1)

\* `${username}$${owner}$${loadFrom}$${colname}$${row["ROWID"]}`
Seed(username, row) ==
    username \o <<"$">> \o Chars(owner) \o <<"$">> \o Chars(loadFrom) \o <<"$">>
        \o Chars(colname) \o <<"$">> \o Chars(Get(row, K_ROWID))

\* The text of a row's Document, null kept as it is.
RowText_KeepNull(row) == Get(row, K_TEXT)

\* The text of a row's Document: "" when TEXT is null or undefined
RowText(row) ==
    LET text == Get(row, K_TEXT)
    IN IF text = Null \/ text = Undefined THEN Str(<<>>) ELSE text

\* One iteration of the row loop: the Document pushed for `row`, given the id
\* generateObjectId returned.
RowDocument(row, docId, carried) ==
    LET data == Get(row, K_MDATA)
        m0 == IF Truthy(data) /\ LooksLikeHtml(data)
              THEN ParsedMetadata(data)
              ELSE RowStartMetadata(carried)
        m1 == Put(m0, K_oid, docId)
        m2 == Put(m1, K_rowid, Get(row, K_ROWID))
        m3 == IF mdata_cols # Undefined THEN CopyCols(m2, row, mdata_cols.items, 1) ELSE m2
    IN [pageContent |-> RowText(row), metadata |-> m3]

\* The whole row loop: acc is the `results` accumulator.
RECURSIVE ProcessRows(_, _, _, _)
ProcessRows(rs, ids, i, acc) ==
    IF i > Len(rs) THEN acc
    ELSE ProcessRows(rs, ids, i + 1,
            Append(acc, RowDocument(rs[i], ids[i],
                                    IF acc = <<>> THEN EmptyMap ELSE acc[Len(acc)].metadata)))

\* ------------------------------------------- inputs of one load() call
LoadFromTypes == {"FILE", "DIR", "TABLE"}
Owners == {Undefined, Str(<<"U","1">>), Str(<<"1","U">>)}
Tables == {Str(<<>>), Str(<<"t","_","1">>), Str(<<"t","!">>)}
ContentCols == {Undefined, Str(<<"c">>), Str(<<"c","-">>)}
K_bang == <<"b","!">>
ExtraCols == {K_author, K_oid, K_title, K_bang}
\* undefined, or an array of 0 .. MaxMdataCols + 1 names (one over the cap)
MdataColsChoices ==
    {Undefined} \cup {Arr(c) : c \in UNION {[1..n -> ExtraCols] : n \in 0..(MaxMdataCols + 1)}}

\* Catalog rows of the target table: column names are unique within a table.
CatalogCols == <<K_author, K_oid, K_title>>
CatalogTypes == {"VARCHAR2", "CLOB", "absent"}
RECURSIVE CatalogRows(_, _)
CatalogRows(types, i) ==
    IF i > Len(CatalogCols) THEN <<>>
    ELSE (IF types[i] = "absent" THEN <<>>
          ELSE <<[COLUMN_NAME |-> CatalogCols[i], DATA_TYPE |-> types[i]]>>)
         \o CatalogRows(types, i + 1)
Catalogs ==
    {Undefined} \cup {Arr(CatalogRows(t, 1)) : t \in [1..Len(CatalogCols) -> CatalogTypes]}

\* Tokens of the HTML-flavoured extraction.
NoEvent == [kind |-> "none"]
OpenEvent(tag, attrs) == [kind |-> "open", tag |-> tag, attrs |-> attrs]
TextEvent(data) == [kind |-> "text", data |-> data]
T_doctype == [src |-> S_DOCTYPE \o <<">">>, ev |-> NoEvent]
T_HTML == [src |-> S_HTML, ev |-> OpenEvent("html", <<>>)]
T_html == [src |-> <<"<","h","t","m","l",">">>, ev |-> OpenEvent("html", <<>>)]
T_title == [src |-> <<"<","t","i","t","l","e",">">>, ev |-> OpenEvent("title", <<>>)]
T_text(cs) == [src |-> cs, ev |-> TextEvent(cs)]
T_endtitle == [src |-> <<"<","/","t","i","t","l","e",">">>, ev |-> NoEvent]
T_endhtml == [src |-> <<"<","/","h","t","m","l",">">>, ev |-> NoEvent]
T_meta_oid ==
    [src |-> <<"<","m","e","t","a"," ","n","a","m","e","=","_","o","i","d"," ",
               "c","o","n","t","e","n","t","=","x",">">>,
     ev |-> OpenEvent("meta", <<[name |-> "name", value |-> Str(K_oid)],
                                [name |-> "content", value |-> Str(<<"x">>)]>>)]

\* "<html><title>D1</title></html>": the shape of the MDATA of the tests
Doc_lower == Html(<<T_html, T_title, T_text(<<"D","1">>), T_endtitle, T_endhtml>>)
\* "<HTML><title>D2</title><meta name=_oid content=x></html>"
Doc_upper == Html(<<T_HTML, T_title, T_text(<<"D","2">>), T_endtitle, T_meta_oid, T_endhtml>>)
\* "<!DOCTYPE html><html><title>D3</title></html>"
Doc_doctype == Html(<<T_doctype, T_html, T_title, T_text(<<"D","3">>), T_endtitle, T_endhtml>>)
Mdatas == {Null, Doc_lower, Doc_upper, Doc_doctype}
\* TEXT: null, undefined (absent) or a string
TextVals == {Null, Undefined, Str(<<"t","x">>)}

DigitChar(i) == <<"0","1","2","3","4","5","6","7","8","9">>[i + 1]
\* The row object of the main query (outFormat OBJECT): MDATA, TEXT, ROWID and
\* one value per selected extra column.
RowObject(i, md, tx, cols) ==
    [k \in {K_MDATA, K_TEXT, K_ROWID} \cup {cols[j] : j \in 1..Len(cols)} |->
        IF k = K_MDATA THEN md
        ELSE IF k = K_TEXT THEN tx
        ELSE IF k = K_ROWID THEN Str(<<"R", DigitChar(i)>>)
        ELSE Str(<<"v", DigitChar(i)>>)]
RowSets(cols) ==
    {Undefined} \cup
    {Arr([i \in DOMAIN f |-> RowObject(i, f[i][1], f[i][2], cols)]) :
        f \in UNION {[1..n -> Mdatas \X TextVals] : n \in 0..MaxRows}}

DbErrors == {[message |-> "ORA-03113"]}
UserNames == {Undefined, Str(<<"S","C","O","T","T">>)}
\* Date.now() during a load: 1700000000 s (25939 * 2^16 + 61696), and 2^32 s,
\* the first second that needs a fifth byte.
Timestamps == {Clock(Wide(25939, 61696), 0), Clock(Wide(65536, 0), 0)}
\* One draw of Math.random() for the counter stands for all in a load.
Counters == {Draw(Wide(0, 7))}
\* The seed of a row is never empty, so its random characters are not drawn.
NoPicks == [i \in 1..SeedLen |-> 0]

\* --------------------------------------------------- one load() call
NoParser ==
    /\ metadata = EmptyMap /\ match = FALSE /\ lastEvent = NoEvent
    /\ nEvents = 0 /\ titleText = Undefined /\ titleByMeta = FALSE

\* new OracleDocLoader(conn, loadFrom, loadFromType, owner, colname, mdata_cols)
Init ==
    /\ NoParser
    /\ loadFromType \in LoadFromTypes
    /\ owner \in Owners
    /\ loadFrom \in Tables
    /\ colname \in ContentCols
    /\ mdata_cols \in MdataColsChoices
    /\ pc = "start"
    /\ executed = <<>>
    /\ colRows = Undefined
    /\ rows = Undefined
    /\ results = <<>>
    /\ error = Undefined
    /\ oids = <<>>
    /\ failed = Undefined
    /\ NoIdCall

Reject(e) ==
    /\ pc' = "rejected"
    /\ error' = e

\* conn.execute called twice with the same statement
Execute_Twice(q, at) ==
    /\ executed' = executed \o <<q, q>>
    /\ pc' = at

\* await this.conn.execute(q): the statement is passed to the connection and
\* load() is suspended at `at`
Execute(q, at) ==
    /\ executed' = Append(executed, q)
    /\ pc' = at

\* load() for FILE and DIR: return []
LoadStub ==
    /\ pc = "start"
    /\ loadFromType \in {"FILE", "DIR"}
    /\ pc' = "done"
    /\ UNCHANGED <<loadFromType, owner, loadFrom, colname, mdata_cols, executed,
                   colRows, rows, results, error, oids, failed>>
    /\ UNCHANGED <<parserVars, genVars>>

\* load() for TABLE: loadFromTable up to its first await, or to the throw
\* that comes before it.
LoadTable ==
    /\ pc = "start"
    /\ loadFromType = "TABLE"
    /\ LET e == ValidateConfig(owner, loadFrom, colname)
       IN IF e # Undefined
          THEN Reject(e) /\ UNCHANGED executed
          ELSE IF mdata_cols # Undefined
          THEN IF TooManyCols(mdata_cols)
               THEN Reject(Err("Exceeds max columns for metadata")) /\ UNCHANGED executed
               ELSE Execute(CatalogQuery, "await_catalog") /\ UNCHANGED error
          ELSE Execute(MainQuery(<<>>), "await_main") /\ UNCHANGED error
    /\ UNCHANGED <<loadFromType, owner, loadFrom, colname, mdata_cols,
                   colRows, rows, results, oids, failed>>
    /\ UNCHANGED <<parserVars, genVars>>

\* The catalog lookup resolves with colResult.rows = crows: the column checks,
\* then the main query is built and executed.
CatalogResolve(crows) ==
    /\ pc = "await_catalog"
    /\ colRows' = crows
    /\ IF crows = Undefined
       THEN Reject(Err("Failed to retrieve column information")) /\ UNCHANGED executed
       ELSE LET colTypes == BuildColTypes(crows.items, 1, EmptyMap)
                e == CheckMdataCols(mdata_cols.items, colTypes, 1)
            IN IF e # Undefined
               THEN Reject(e) /\ UNCHANGED executed
               ELSE Execute(MainQuery(mdata_cols.items), "await_main") /\ UNCHANGED error
    /\ UNCHANGED <<loadFromType, owner, loadFrom, colname, mdata_cols,
                   rows, results, oids, failed>>
    /\ UNCHANGED <<parserVars, genVars>>

\* The main query resolves with result.rows = rs: getUsername() is called.
MainResolve(rs) ==
    /\ pc = "await_main"
    /\ rows' = rs
    /\ colRows' = Undefined
    /\ Execute(UserQuery, "await_user")
    /\ UNCHANGED <<loadFromType, owner, loadFrom, colname, mdata_cols,
                   results, error, oids, failed>>
    /\ UNCHANGED <<parserVars, genVars>>

\* The session-identity query resolves: the row loop runs and load() returns.
UserResolve(first, ts, ctr) ==
    /\ pc = "await_user"
    /\ LET username == GetUsername(first)
           rs == IF rows # Undefined THEN rows.items ELSE <<>>
           ids == [i \in 1..Len(rs) |->
                     GenerateObjectId(Str(Seed(username, rs[i])), NoPicks, ts, ctr[i])]
       IN IF \E i \in 1..Len(rs) : IsThrown(ids[i])
          THEN \* generateObjectId throws inside the loop: load() rejects
               /\ Reject(ids[CHOOSE i \in 1..Len(rs) :
                                 /\ IsThrown(ids[i])
                                 /\ \A j \in 1..(i - 1) : ~IsThrown(ids[j])].thrown)
               /\ UNCHANGED <<oids, results>>
          ELSE /\ oids' = ids
               /\ results' = ProcessRows(rs, ids, 1, <<>>)
               /\ pc' = "done"
               /\ UNCHANGED error
    /\ UNCHANGED <<loadFromType, owner, loadFrom, colname, mdata_cols,
                   executed, colRows, rows, failed>>
    /\ UNCHANGED <<parserVars, genVars>>

\* conn.execute rejects and the statement is executed again
ExecuteFails_Retried(e) ==
    /\ pc \in {"await_catalog", "await_main", "await_user"}
    /\ executed' = Append(executed, executed[Len(executed)])
    /\ failed' = e
    /\ UNCHANGED <<loadFromType, owner, loadFrom, colname, mdata_cols, pc,
                   colRows, rows, results, error, oids>>
    /\ UNCHANGED <<parserVars, genVars>>

\* conn.execute rejects: the await throws and load() rejects with that error.
ExecuteFails(e) ==
    /\ pc \in {"await_catalog", "await_main", "await_user"}
    /\ Reject(e)
    /\ failed' = e
    /\ colRows' = Undefined
    /\ UNCHANGED <<loadFromType, owner, loadFrom, colname, mdata_cols,
                   executed, rows, results, oids>>
    /\ UNCHANGED <<parserVars, genVars>>

\* What conn.execute can resolve with at each await.
CatalogSettles ==
    /\ pc = "await_catalog"
    /\ \E crows \in Catalogs : CatalogResolve(crows)

MainSettles ==
    /\ pc = "await_main"
    /\ \E rs \in RowSets(IF mdata_cols # Undefined THEN mdata_cols.items ELSE <<>>) :
          MainResolve(rs)

UserSettles ==
    /\ pc = "await_user"
    /\ \E first \in UserNames, ts \in Timestamps :
          \E ctr \in [1..(IF rows # Undefined THEN Len(rows.items) ELSE 0) -> Counters] :
             UserResolve(first, ts, ctr)

Next ==
    \/ LoadStub
    \/ LoadTable
    \/ CatalogSettles
    \/ MainSettles
    \/ UserSettles
    \/ \E e \in DbErrors : ExecuteFails(e)

Spec == Init /\ [][Next]_vars

\* --------------------------------------- calls of generateObjectId alone
\* The argument: omitted (the default null applies), null, "", and two seeds.
SeedArgs ==
    {Undefined, Null, Str(<<>>), Str(<<"a">>),
     Str(<<"S","C","O","T","T","$","U","1","$","t","_","1","$","c","$","R","1">>)}
\* Math.floor(Math.random() * 62) of the seed characters: all 0, all 61
PickChoices == {[i \in 1..SeedLen |-> 0], [i \in 1..SeedLen |-> 61]}
\* Date.now(): 0 s, 1700000000.999 s, 2^32 - 1 s (the last second that fits
\* four bytes, 2106-02-07), 2^32 s and 2^32 + 1 s.
Clocks ==
    {Clock(Wide(0, 0), 0), Clock(Wide(25939, 61696), 999),
     Clock(Wide(65535, 65535), 999), Clock(Wide(65536, 0), 0),
     Clock(Wide(65536, 1), 0)}
\* Math.random() of the counter: 0, 7 / 2^32 and the largest value below 1
Draws == {Draw(Wide(0, 0)), Draw(Wide(0, 7)), Draw(Wide(65535, 65535))}

GenInit ==
    /\ NoParser
    /\ LoaderIdle
    /\ NoIdCall

\* One call OracleDocReader.generateObjectId(inputString)
Generate(inputString, picks, now, draw) ==
    /\ pc = "idle"
    /\ idCall' = [inputString |-> inputString, picks |-> picks, now |-> now,
                  draw |-> draw]
    /\ idResult' = GenerateObjectId(inputString, picks, now, draw)
    /\ UNCHANGED <<parserVars, loaderVars>>

GenNext ==
    \E inputString \in SeedArgs, picks \in PickChoices, now \in Clocks, draw \in Draws :
        Generate(inputString, picks, now, draw)

GenSpec == GenInit /\ [][GenNext]_vars

\* ------------------------------------------------------------ C1 .. C8
IsTableLoad == loadFromType = "TABLE"

\* ^[A-Za-z_][A-Za-z0-9_]*$ as the claims state it
SafeName(cs) ==
    /\ cs # <<>>
    /\ \A i \in DOMAIN cs :
          cs[i] \in (IF i = 1 THEN Alpha \cup {"_"} ELSE Alpha \cup Digit \cup {"_"})

MainExecuted == \E i \in DOMAIN executed : executed[i].kind = "main"
RequestedCols == IF mdata_cols # Undefined THEN mdata_cols.items ELSE <<>>
RequestedSet == {RequestedCols[j] : j \in DOMAIN RequestedCols}
ReturnedRows == IF rows # Undefined THEN rows.items ELSE <<>>
Rejected == pc = "rejected"
RejectedWith(msg) == pc = "rejected" /\ error.message = msg

\* C1: whenever the main query has been executed, the owner, table name,
\* content-column name and every extra column name spliced into it match the
\* identifier pattern; a load with a non-matching name never executes it.
C1_MainQueryNamesSafe ==
    /\ \A i \in DOMAIN executed :
          executed[i].kind = "main" =>
             /\ SafeName(executed[i].owner)
             /\ SafeName(executed[i].table)
             /\ SafeName(executed[i].colname)
             /\ \A j \in DOMAIN executed[i].mdataCols : SafeName(executed[i].mdataCols[j])
             /\ executed[i].owner = Chars(owner)
             /\ executed[i].table = Chars(loadFrom)
             /\ executed[i].colname = Chars(colname)
             /\ executed[i].mdataCols = RequestedCols
    /\ (\/ (owner # Undefined /\ ~SafeName(Chars(owner)))
        \/ ~SafeName(Chars(loadFrom))
        \/ (colname # Undefined /\ ~SafeName(Chars(colname)))
        \/ \E j \in DOMAIN RequestedCols : ~SafeName(RequestedCols[j]))
       => ~MainExecuted

\* The main query was executed with extra metadata columns spliced in.
C1_Witness ==
    \E i \in DOMAIN executed :
        executed[i].kind = "main" /\ Len(executed[i].mdataCols) >= 2

\* C2 as stated: a table load with an extra metadata column name that fails the
\* identifier check never executes any query, the catalog lookup included, and
\* once started it is rejected.
C2_BadExtraColumnBeforeAnyQuery ==
    (IsTableLoad /\ \E j \in DOMAIN RequestedCols : ~SafeName(RequestedCols[j]))
       => /\ executed = <<>>
          /\ (pc # "start" => Rejected)

\* C3 as stated: a table load whose table name fails the pattern is rejected
\* with "Invalid table name" and no query executed.
C3_InvalidTableNameMessage ==
    (IsTableLoad /\ ~SafeName(Chars(loadFrom)) /\ pc # "start")
       => /\ RejectedWith("Invalid table name")
          /\ executed = <<>>

\* C3 (amended): a table load whose table name fails the pattern is rejected
\* with no query executed; the message is "Invalid table name" when owner and
\* content column are given and the owner passes the pattern (the checks on
\* those come first and report their own message).
C3_InvalidTableRejected ==
    (IsTableLoad /\ ~SafeName(Chars(loadFrom)) /\ pc # "start")
       => /\ Rejected
          /\ executed = <<>>
          /\ (Truthy(owner) /\ Truthy(colname) /\ SafeName(Chars(owner)))
                => error.message = "Invalid table name"

\* A load of a table named "t!" was rejected with "Invalid table name".
C3_Witness ==
    /\ IsTableLoad
    /\ Chars(loadFrom) = <<"t","!">>
    /\ RejectedWith("Invalid table name")
    /\ executed = <<>>

\* C4: a table load requesting more than 3 extra columns is rejected before any
\* query; a load with 0 to 3 extra columns is never rejected for the count.
C4_ColumnCap ==
    IsTableLoad =>
       /\ Len(RequestedCols) > 3 => (executed = <<>> /\ (pc # "start" => Rejected))
       /\ Len(RequestedCols) <= 3 => ~RejectedWith("Exceeds max columns for metadata")

\* A load with 4 extra columns was rejected for the count, nothing executed.
C4_Witness ==
    /\ IsTableLoad
    /\ Len(RequestedCols) = 4
    /\ RejectedWith("Exceeds max columns for metadata")
    /\ executed = <<>>

\* C5: a successful table load returns one Document per row of the main query,
\* in row order, whose text is the row's TEXT, or "" when TEXT is null or
\* absent; with no rows it returns the empty sequence and no error.
C5_OneDocumentPerRow ==
    (IsTableLoad /\ pc = "done") =>
       /\ error = Undefined
       /\ Len(results) = Len(ReturnedRows)
       /\ \A i \in DOMAIN ReturnedRows :
             results[i].pageContent =
                (IF ReturnedRows[i][K_TEXT] \in {Null, Undefined}
                 THEN Str(<<>>) ELSE ReturnedRows[i][K_TEXT])

\* A load returned two Documents, the first for a row with null TEXT and the
\* second for a row with a TEXT string.
C5_Witness ==
    /\ IsTableLoad /\ pc = "done"
    /\ Len(ReturnedRows) = 2 /\ Len(results) = 2
    /\ ReturnedRows[1][K_TEXT] = Null
    /\ results[1].pageContent = Str(<<>>)
    /\ results[2].pageContent = Str(<<"t","x">>)

\* The title element of an HTML extraction, read off its tokens.
TitleAt(data) ==
    {i \in 1..(Len(data.tokens) - 1) :
        /\ data.tokens[i].ev.kind = "open" /\ data.tokens[i].ev.tag = "title"
        /\ data.tokens[i + 1].ev.kind = "text"}
TitleOf(data) == Str(data.tokens[(CHOOSE i \in TitleAt(data) : TRUE) + 1].ev.data)

\* C6 as stated: for every row whose MDATA is an HTML document with a <title>
\* element, the Document's metadata.title is the title text of that document
\* (loads that do not request a column named "title").
C6_TitleFromHtml ==
    (IsTableLoad /\ pc = "done" /\ K_title \notin RequestedSet) =>
       \A i \in DOMAIN ReturnedRows :
          LET data == ReturnedRows[i][K_MDATA]
          IN (Truthy(data) /\ TitleAt(data) # {}) =>
                Get(results[i].metadata, K_title) = TitleOf(data)

\* C7 as stated: in every Document of a table load, metadata._oid is the id
\* generated for that row and metadata._rowid is the row's ROWID.
C7_OidAndRowid ==
    (IsTableLoad /\ pc = "done") =>
       \A i \in DOMAIN results :
          /\ Get(results[i].metadata, K_oid) = oids[i]
          /\ Get(results[i].metadata, K_rowid) = ReturnedRows[i][K_ROWID]

\* C8 as stated: for every row whose MDATA is null or absent, the keys of the
\* Document's metadata are exactly _oid, _rowid and the requested extra
\* columns, and title is not among them, whatever rows came before it.
C8_NoHtmlNoTitleKey ==
    (IsTableLoad /\ pc = "done") =>
       \A i \in DOMAIN ReturnedRows :
          ~Truthy(ReturnedRows[i][K_MDATA]) =>
             /\ DOMAIN results[i].metadata = {K_oid, K_rowid} \cup RequestedSet
             /\ K_title \notin DOMAIN results[i].metadata

\* C8 (amended): for every row whose MDATA is null or absent, the keys of the
\* Document's metadata are exactly _oid, _rowid and the requested extra
\* columns, whatever rows came before it: a title key is there only when
\* "title" is itself a requested extra column.
C8_NoHtmlNoParsedKeys ==
    (IsTableLoad /\ pc = "done") =>
       \A i \in DOMAIN ReturnedRows :
          ~Truthy(ReturnedRows[i][K_MDATA]) =>
             DOMAIN results[i].metadata = {K_oid, K_rowid} \cup RequestedSet

\* The second row has no MDATA, the first had HTML metadata with a title, and
\* the second Document has no title key.
C8_Witness ==
    /\ IsTableLoad /\ pc = "done"
    /\ Len(results) = 2
    /\ ReturnedRows[2][K_MDATA] = Null
    /\ K_title \in DOMAIN results[1].metadata
    /\ K_title \notin DOMAIN results[2].metadata
    /\ DOMAIN results[2].metadata = {K_oid, K_rowid} \cup RequestedSet

\* ------------------------------------------------------------ C11
LowerHex == {"0","1","2","3","4","5","6","7","8","9","a","b","c","d","e","f"}
IsObjectIdHex(v) ==
    /\ IsStr(v)
    /\ Len(v.chars) = 32
    /\ \A i \in DOMAIN v.chars : v.chars[i] \in LowerHex

\* C11 as stated: every call of generateObjectId, whatever the seed argument,
\* the clock and the random draws, returns a string of exactly 32 lower-case
\* hexadecimal characters and throws nothing.
C11_AlwaysThirtyTwoHexDigits ==
    idCall # Undefined => IsObjectIdHex(idResult)

\* ------------------------------------------------------------ C12 .. C14
\* The kinds of the statements passed to conn.execute so far, in order
ExecutedKinds == [i \in DOMAIN executed |-> executed[i].kind]
ColumnsGiven == mdata_cols # Undefined

AllowedTypes == {"NUMBER", "BINARY_DOUBLE", "BINARY_FLOAT", "LONG", "DATE",
                 "TIMESTAMP", "VARCHAR2"}
CatalogFetched == colRows # Undefined
\* col appears in the fetched catalog rows with an allowed declared type
CatalogAllows(col) ==
    \E i \in DOMAIN colRows.items :
       /\ colRows.items[i].COLUMN_NAME = col
       /\ colRows.items[i].DATA_TYPE \in AllowedTypes

\* C13: in a table load with extra columns, the main query is executed only
\* after the catalog lookup, and only if every requested column appears in
\* the fetched catalog rows with a type of the allow-list; when the fetched
\* catalog lacks a requested column or declares another type for it, the
\* load is rejected and the main query has not been executed.
C13_MainOnlyForAllowedColumns ==
    (IsTableLoad /\ ColumnsGiven) =>
       /\ MainExecuted => executed[1].kind = "catalog"
       /\ (MainExecuted /\ pc = "await_main") => CatalogFetched
       /\ (CatalogFetched /\ \E col \in RequestedSet : ~CatalogAllows(col)) =>
             Rejected /\ ~MainExecuted

\* The main query was executed for requested columns the catalog allows,
\* while the catalog also lists a CLOB column that was not requested
C13_Witness ==
    /\ IsTableLoad /\ ColumnsGiven /\ RequestedSet # {}
    /\ CatalogFetched /\ MainExecuted
    /\ \E i \in DOMAIN colRows.items : colRows.items[i].DATA_TYPE = "CLOB"

\* A round trip of this load has failed
RoundTripFailed == failed # Undefined

\* C14: in a table load, once a round trip (catalog lookup, main query or
\* session-identity query) has failed, load() is rejected with that same
\* error and has produced no documents; no statement is passed to the
\* connection more than once in a load.
C14_FailurePropagatesNoRetry ==
    IsTableLoad =>
       /\ RoundTripFailed =>
             /\ Rejected
             /\ error = failed
             /\ results = <<>>
       /\ \A i, j \in DOMAIN executed :
             executed[i].kind = executed[j].kind => i = j

\* The session-identity query, the third round trip, failed
C14_Witness ==
    /\ IsTableLoad /\ RoundTripFailed /\ Rejected
    /\ ExecutedKinds = <<"catalog", "main", "user">>
    /\ ReturnedRows # <<>>

====
